---- MODULE Spec2Model ----
(***************************************************************************)
(* Model of fc/gate.py: the gate functions start_end, high_low, ellipse    *)
(* and density2d.  A gate is a pure function of the event array `data` and *)
(* its parameters; the model keeps the event array, the arguments of the   *)
(* last call (`call`), what that call produced (`out`: the returned        *)
(* namedtuple, or the exception raised) and the result of the call before  *)
(* it (`prev`).                                                            *)
(*                                                                         *)
(* Rows are numbered 1..N here (row i of the source is row i+1); bin       *)
(* indices and flat cell indices are 0-based as in the source.             *)
(* Coordinates are integers.  numpy and scipy are modelled by what their   *)
(* documentation says the called functions do.                             *)
(***************************************************************************)
EXTENDS Integers, Sequences, FiniteSets, TLC

VARIABLES data, call, out, prev

vars == <<data, call, out, prev>>

\* Largest number of events in the array.
MaxN == 2

\* The coordinates of the events.  With the bin edges used below (0, 1, 2) they
\* put an event under the first edge, on an edge, inside a bin, on the last
\* edge or above it.
Coords == {0, 1, 2}
Points == Coords \X Coords
DataSets == UNION {[1 .. n -> Points] : n \in 0 .. MaxN}

Min2(a, b) == IF a < b THEN a ELSE b
Max2(a, b) == IF a > b THEN a ELSE b

RECURSIVE SumTo(_, _)
\* f[0] + ... + f[k], 0 when k < 0.
SumTo(f, k) == IF k < 0 THEN 0 ELSE f[k] + SumTo(f, k - 1)

\* data[mask] for a boolean mask: the rows whose entry is True, in row order.
RECURSIVE BoolIndex(_, _)
BoolIndex(d, mask) ==
    IF Len(d) = 0 THEN <<>>
    ELSE LET n == Len(d)
             front == BoolIndex(SubSeq(d, 1, n - 1), SubSeq(mask, 1, n - 1))
         IN IF mask[n] THEN Append(front, d[n]) ELSE front

\* data[idx] for an integer index array: row idx[k] at position k.
IntIndex(d, idx) == [k \in 1 .. Len(idx) |-> d[idx[k]]]

NoCall == [gate |-> "none"]
NoOut == [gate |-> "none", status |-> "none"]

Raised(g, err, line) == [gate |-> g, status |-> "raised", error |-> err, line |-> line]

-----------------------------------------------------------------------------
(* start_end *)

\* Python's normalisation of the start of the slice mask[start:] on N items.
SliceStart(N, start) == IF start < 0 THEN Max2(N + start, 0) ELSE Min2(start, N)

\* mask = ones; mask[:num_start] = False; mask[-num_end:] = False
StartEndMask(N, num_start, num_end) ==
    [i \in 1 .. N |-> ~(i - 1 < SliceStart(N, num_start)) /\ ~(i - 1 >= SliceStart(N, 0 - num_end))]

StartEndOut(d, num_start, num_end) ==
    IF Len(d) < num_start + num_end
    THEN Raised("start_end", "ValueError", 66)
    ELSE LET mask == StartEndMask(Len(d), num_start, num_end)
         IN [gate |-> "start_end", status |-> "returned", maskKind |-> "bool",
             mask |-> mask, gated_data |-> BoolIndex(d, mask)]

StartEnd(num_start, num_end) ==
    /\ call.gate = "none"
    /\ call' = [gate |-> "start_end", num_start |-> num_start, num_end |-> num_end]
    /\ out' = StartEndOut(data, num_start, num_end)
    /\ prev' = out
    /\ UNCHANGED data

-----------------------------------------------------------------------------
(* high_low *)

Inf == [fin |-> FALSE, v |-> 0]
Fin(v) == [fin |-> TRUE, v |-> v]

\* data_ch < high and data_ch > low, with high = np.Inf / low = -np.Inf defaults.
Below(v, high) == ~high.fin \/ v < high.v
Above(v, low) == ~low.fin \/ v > low.v

HighLowMask(d, channels, high, low) ==
    [i \in 1 .. Len(d) |-> \A c \in channels : Below(d[i][c], high) /\ Above(d[i][c], low)]

HighLowOut(d, channels, high, low) ==
    LET mask == HighLowMask(d, channels, high, low)
    IN [gate |-> "high_low", status |-> "returned", maskKind |-> "bool",
        mask |-> mask, gated_data |-> BoolIndex(d, mask)]

HighLow(channels, high, low) ==
    /\ call.gate = "none"
    /\ call' = [gate |-> "high_low", channels |-> channels, high |-> high, low |-> low]
    /\ out' = HighLowOut(data, channels, high, low)
    /\ prev' = out
    /\ UNCHANGED data

-----------------------------------------------------------------------------
(* ellipse *)

\* theta is given in quarter turns, where cos and sin are exact.
Cos(q) == CASE q = 0 -> 1 [] q = 1 -> 0 [] q = 2 -> 0 - 1 [] OTHER -> 0
Sin(q) == CASE q = 0 -> 0 [] q = 1 -> 1 [] q = 2 -> 0 [] OTHER -> 0 - 1

\* data_rotated = (data_ch - center) . R.T, R = [[cos, sin], [-sin, cos]]
Rotated(p, center, q) ==
    LET cx == p[1] - center[1]
        cy == p[2] - center[2]
    IN <<cx * Cos(q) + cy * Sin(q), (0 - cx) * Sin(q) + cy * Cos(q)>>

\* (v/s)**2 in numpy's floating point: a division by zero gives nan (0/0) or
\* inf (v/0, v # 0) with a warning, and raises nothing.
SquaredRatio(v, s) ==
    IF s = 0
    THEN (IF v = 0 THEN [kind |-> "nan"] ELSE [kind |-> "inf"])
    ELSE [kind |-> "fin", num |-> v * v, den |-> s * s]

\* t1 + t2 <= 1; a comparison with nan is False, inf <= 1 is False.
SumAtMostOne(t1, t2) ==
    IF t1.kind # "fin" \/ t2.kind # "fin" THEN FALSE
    ELSE t1.num * t2.den + t2.num * t1.den <= t1.den * t2.den

EllipseOut(d, channels, center, a, b, q) ==
    IF Len(channels) # 2 THEN Raised("ellipse", "AssertionError", 155)
    ELSE LET mask == [i \in 1 .. Len(d) |->
                        LET r == Rotated(<<d[i][channels[1]], d[i][channels[2]]>>, center, q)
                        IN SumAtMostOne(SquaredRatio(r[1], a), SquaredRatio(r[2], b))]
         IN [gate |-> "ellipse", status |-> "returned", maskKind |-> "bool",
             mask |-> mask, gated_data |-> BoolIndex(d, mask), ncontours |-> 1]

\* log is False in every call made here: np.log10 has no exact image on the
\* integer coordinates.
Ellipse(channels, center, a, b, q) ==
    /\ call.gate = "none"
    /\ call' = [gate |-> "ellipse", channels |-> channels, center |-> center,
                a |-> a, b |-> b, theta |-> q, log |-> FALSE]
    /\ out' = EllipseOut(data, channels, center, a, b, q)
    /\ prev' = out
    /\ UNCHANGED data

-----------------------------------------------------------------------------
(* density2d *)

\* truncate=6.0 of the gaussian_filter call: the kernel reaches int(truncate*sigma + 0.5) cells.
truncate == 6

\* The bins argument of numpy.histogram2d: a number of bins per axis, or the
\* bin edges of the two axes.
IntBins(n) == [kind |-> "int", n |-> n, xe |-> <<>>, ye |-> <<>>]
EdgeBins(xe, ye) == [kind |-> "edges", n |-> 0, xe |-> xe, ye |-> ye]

ColMin(d, c) == CHOOSE v \in {d[i][c] : i \in 1 .. Len(d)} : \A i \in 1 .. Len(d) : v <= d[i][c]
ColMax(d, c) == CHOOSE v \in {d[i][c] : i \in 1 .. Len(d)} : \A i \in 1 .. Len(d) : v >= d[i][c]

\* With a number of bins the edges are linspace(min, max, n+1), widened to
\* (min - 0.5, max + 0.5) when min = max, which are fractions: coordinates and
\* edges of such a call are kept multiplied by 2n.
BinScale(bins) == IF bins.kind = "int" THEN 2 * bins.n ELSE 1

LinEdges(lo, hi, n) ==
    [k \in 1 .. n + 1 |->
        IF lo = hi THEN 2 * n * lo - n + 2 * (k - 1)
        ELSE 2 * n * lo + 2 * (k - 1) * (hi - lo)]

\* xe (c = 1) and ye (c = 2) as numpy.histogram2d returns them.
Edges(d, bins, c) ==
    IF bins.kind = "int" THEN LinEdges(ColMin(d, c), ColMax(d, c), bins.n)
    ELSE IF c = 1 THEN bins.xe ELSE bins.ye

\* data_ch[:,c] in the units of the edges.
Column(d, bins, c) == [i \in 1 .. Len(d) |-> d[i][c] * BinScale(bins)]

\* numpy.histogram's bins: half open, the last one closed on both sides.
InBin(v, e, b) ==
    /\ e[b + 1] <= v
    /\ v < e[b + 2] \/ (b = Len(e) - 2 /\ v = e[b + 2])

\* H of numpy.histogram2d, raveled: cell (i, j) is entry i*ny + j.
Histogram2d(xs, ys, xe, ye) ==
    LET ny == Len(ye) - 1
    IN [k \in 0 .. (Len(xe) - 1) * ny - 1 |->
          Cardinality({r \in 1 .. Len(xs) :
                          InBin(xs[r], xe, k \div ny) /\ InBin(ys[r], ye, (k % ny))})]

\* np.digitize(v, bins=e): the i with e[i-1] <= v < e[i].
Digitize(v, e) == Cardinality({k \in 1 .. Len(e) : e[k] <= v})

\* Variant: the rightmost edge is left where np.digitize puts it.
BinIndexHalfOpen(v, e) == Digitize(v, e) - 1

\* ix = np.digitize(x, xe) - 1; ix[x == xe[-1]] = len(xe) - 2
BinIndex(v, e) == IF v = e[Len(e)] THEN Len(e) - 2 ELSE Digitize(v, e) - 1

\* xi not in x_outliers, x_outliers = (-1, len(xe)-1)
InRange(i, e) == i # 0 - 1 /\ i # Len(e) - 1

\* Hi[k] after the loop has visited rows 1 .. n: the rows of cell k, in the
\* order the loop appended them.
RECURSIVE BinRows(_, _, _, _, _, _, _)
BinRows(k, n, ix, iy, xe, ye, ny) ==
    IF n = 0 THEN <<>>
    ELSE LET before == BinRows(k, n - 1, ix, iy, xe, ye, ny)
         IN IF InRange(ix[n], xe) /\ InRange(iy[n], ye) /\ ix[n] * ny + iy[n] = k
            THEN Append(before, n) ELSE before

\* Variant: every row counts, outliers too (N = data.shape[0]).
CountAllRows(ix, iy, xe, ye) == Cardinality(DOMAIN ix)

\* N after the loop: the rows that were appended to some cell.
CountInRange(ix, iy, xe, ye) ==
    Cardinality({r \in DOMAIN ix : InRange(ix[r], xe) /\ InRange(iy[r], ye)})

\* n = int(np.ceil(gate_fraction*float(N))), gate_fraction = f[1]/f[2]
KeepCount(f, N) == (f[1] * N + f[2] - 1) \div f[2]

\* The Gaussian kernel exp(-dist^2 / (2 sigma^2)) in thousandths, for the
\* values of sigma used here; the kernel's normalisation is a common factor
\* of every cell and cancels in D.
GaussWeight(sigma, dist) ==
    IF dist > (2 * truncate * sigma + 1) \div 2 THEN 0
    ELSE CASE sigma = 10 -> (CASE dist = 0 -> 1000 [] dist = 1 -> 995 [] dist = 2 -> 980
                               [] dist = 3 -> 956 [] OTHER -> 923)
           [] OTHER -> (CASE dist = 0 -> 1000 [] dist = 1 -> 607 [] dist = 2 -> 135
                          [] dist = 3 -> 11 [] OTHER -> 0)

Abs(x) == IF x < 0 THEN 0 - x ELSE x

\* sH = gaussian_filter(H, sigma, mode='constant', cval=0.0), raveled.
GaussianFilter(H, ny, sigma) ==
    [k \in DOMAIN H |->
        SumTo([c \in DOMAIN H |->
                  H[c] * GaussWeight(sigma, Abs((k \div ny) - (c \div ny)))
                       * GaussWeight(sigma, Abs((k % ny) - (c % ny)))],
              Cardinality(DOMAIN H) - 1)]

\* D = sH / np.sum(sH), raveled: nan in every cell when the sum is 0 (numpy
\* warns and goes on).
Normalize(sH) ==
    LET total == SumTo(sH, Cardinality(DOMAIN sH) - 1)
    IN [k \in DOMAIN sH |->
          IF total = 0 THEN [kind |-> "nan"]
          ELSE [kind |-> "fin", num |-> sH[k], den |-> total]]

\* a < b as a sort compares them: the cells of one D share their
\* denominator; nan sorts after every number.
DLess(a, b) ==
    IF a.kind = "nan" THEN FALSE
    ELSE IF b.kind = "nan" THEN TRUE
    ELSE a.num < b.num

\* The orders of the cells 0 .. n-1, for the grids of up to 4 cells used here.
Orders ==
    [n \in 1 .. 4 |->
        {p \in [0 .. n - 1 -> 0 .. n - 1] : \A i, j \in 0 .. n - 1 : i # j => p[i] # p[j]}]

\* What np.argsort(vD) may return: numpy's default sort is not stable, so
\* any order of equal entries.
Argsort(vD) ==
    {p \in Orders[Cardinality(DOMAIN vD)] :
        \A i, j \in DOMAIN vD : i < j => ~DLess(vD[p[j]], vD[p[i]])}

\* Variant: the ascending order is used as it is.
SortedIndexAscending(asc) == asc

\* sidx = np.argsort(vD)[::-1]
SortedIndex(asc) == [i \in DOMAIN asc |-> asc[Cardinality(DOMAIN asc) - 1 - i]]

\* np.nonzero(csvH >= n)[0]: the ranks whose cumulative raw count reaches n.
ReachedRanks(svH, n) == {i \in DOMAIN svH : SumTo(svH, i) >= n}

\* Nidx = np.nonzero(csvH >= n)[0][0]
CutoffRank(svH, n) == CHOOSE i \in ReachedRanks(svH, n) : \A j \in ReachedRanks(svH, n) : i <= j

RECURSIVE SortedRows(_)
\* np.sort of an array of distinct rows.
SortedRows(S) ==
    IF S = {} THEN <<>>
    ELSE LET m == CHOOSE x \in S : \A y \in S : x >= y
         IN Append(SortedRows(S \ {m}), m)

\* Lines 229-271: the histogram, the bin of every row, the rows of every
\* bin and the number of rows inside the bins.
Binned(d, bins) ==
    LET xe == Edges(d, bins, 1)
        ye == Edges(d, bins, 2)
        xs == Column(d, bins, 1)
        ys == Column(d, bins, 2)
        ix == [r \in 1 .. Len(d) |-> BinIndex(xs[r], xe)]
        iy == [r \in 1 .. Len(d) |-> BinIndex(ys[r], ye)]
        ncells == (Len(xe) - 1) * (Len(ye) - 1)
    IN [gate |-> "density2d", xe |-> xe, ye |-> ye, ix |-> ix, iy |-> iy,
        H |-> Histogram2d(xs, ys, xe, ye),
        Hi |-> [k \in 0 .. ncells - 1 |-> BinRows(k, Len(d), ix, iy, xe, ye, Len(ye) - 1)],
        N |-> CountInRange(ix, iy, xe, ye)]

\* Lines 273-287: the number of rows to keep, the blurred histogram and D.
Estimated(b, f, sigma, sH) ==
    b @@ [gate_fraction |-> f, n |-> KeepCount(f, b.N), sH |-> sH, D |-> Normalize(sH)]

\* Lines 289-293: the cells by descending D, given what np.argsort returned.
Sorted(e, asc, sidx) ==
    e @@ [asc |-> asc, sidx |-> sidx, svH |-> [i \in DOMAIN sidx |-> e.H[sidx[i]]]]

\* Lines 300-332 for the cutoff rank Nidx: the rows of the accepted cells.
\* floatIndex says whether the numpy of the build takes the empty float array
\* np.array([]) as an index (before 1.12 it does, with a warning) or raises.
Selected(d, s, Nidx, mask, floatIndex) ==
    IF mask = <<>> /\ ~floatIndex
    THEN s @@ [Nidx |-> Nidx, status |-> "raised", error |-> "IndexError", line |-> 305]
    ELSE s @@ [Nidx |-> Nidx, status |-> "returned", maskKind |-> "index",
               mask |-> mask, gated_data |-> IntIndex(d, mask),
               contour |-> [x |-> SubSeq(s.xe, 1, Len(s.xe) - 1),
                            y |-> SubSeq(s.ye, 1, Len(s.ye) - 1),
                            level |-> s.D[s.sidx[Nidx]]]]

\* Variant: the slice is taken from the cutoff rank on, vHi[sidx[Nidx:]].
KeptRowsFromCutoff(s, Nidx) ==
    SortedRows(UNION {{s.Hi[s.sidx[i]][j] : j \in 1 .. Len(s.Hi[s.sidx[i]])} :
                         i \in Nidx .. Cardinality(DOMAIN s.sidx) - 1})

\* mask = np.sort of the rows in vHi[sidx[:(Nidx+1)]]
KeptRows(s, Nidx) ==
    SortedRows(UNION {{s.Hi[s.sidx[i]][j] : j \in 1 .. Len(s.Hi[s.sidx[i]])} : i \in 0 .. Nidx})

\* Lines 295-305.
Thresholded(d, s, floatIndex) ==
    IF ReachedRanks(s.svH, s.n) = {}
    THEN s @@ [status |-> "raised", error |-> "IndexError", line |-> 298]
    ELSE Selected(d, s, CutoffRank(s.svH, s.n), KeptRows(s, CutoffRank(s.svH, s.n)), floatIndex)

\* The call from line 229 on, for the D that was computed (e), what
\* np.argsort returned for it (asc) and the build's numpy (floatIndex).
Density2dRun(d, e, asc, floatIndex) ==
    Thresholded(d, Sorted(e, asc, SortedIndex(asc)), floatIndex)

\* The call up to line 287.
Density2dField(d, b, f, sigma) ==
    Estimated(b, f, sigma, GaussianFilter(b.H, Len(b.ye) - 1, sigma))

\* Every result the field e can lead to.  `sorted` is the result np.argsort
\* gave in the call before when that call sorted the same D (np.argsort is a
\* function: the same array is sorted the same way), else {}.
Density2dSorts(d, e, sorted) ==
    {Density2dRun(d, e, asc, fl) :
        asc \in (IF sorted = {} THEN Argsort(e.D) ELSE sorted), fl \in BOOLEAN}

Density2dOuts(d, bins, f, sigma, sorted) ==
    IF Len(d) <= 1 THEN {Raised("density2d", "AssertionError", 221)}
    ELSE Density2dSorts(d, Density2dField(d, Binned(d, bins), f, sigma), sorted)

\* channels is the default [0, 1].  A second call gates the same events on
\* the same grid with another gate_fraction.
Density2d(bins, f, sigma) ==
    /\ \/ call.gate = "none"
       \/ /\ call.gate = "density2d"
          /\ prev.gate = "none"
          /\ call.bins = bins
          /\ call.sigma = sigma
          /\ call.gate_fraction # f
    /\ call' = [gate |-> "density2d", channels |-> <<1, 2>>, bins |-> bins,
                gate_fraction |-> f, sigma |-> sigma]
    /\ out' \in Density2dOuts(data, bins, f, sigma,
                              IF out.gate = "density2d" /\ "asc" \in DOMAIN out
                              THEN {out.asc} ELSE {})
    /\ prev' = out
    /\ UNCHANGED data

\* The values of bins, gate_fraction and sigma the calls are made with.
BinChoices ==
    {IntBins(1), IntBins(2), EdgeBins(<<0, 1, 2>>, <<0, 1, 2>>),
     EdgeBins(<<0, 1>>, <<0, 1, 2>>), EdgeBins(<<1, 2>>, <<1, 2>>)}
GateFractions == {<<1, 2>>, <<13, 20>>, <<1, 1>>}
Sigmas == {1, 10}

-----------------------------------------------------------------------------

Init ==
    /\ data \in DataSets
    /\ call = NoCall
    /\ out = NoOut
    /\ prev = NoOut

Next ==
    \/ \E ns \in 0 .. MaxN, ne \in 0 .. MaxN : StartEnd(ns, ne)
    \/ \E ch \in {{1, 2}, {1}, {2}}, high \in {Inf} \cup {Fin(v) : v \in Coords},
          low \in {Inf} \cup {Fin(v) : v \in Coords} : HighLow(ch, high, low)
    \/ \E ch \in {<<1, 2>>, <<1>>}, center \in {<<0, 0>>, <<1, 1>>},
          a \in 0 .. 2, b \in 0 .. 2, q \in 0 .. 1 : Ellipse(ch, center, a, b, q)
    \/ \E bins \in BinChoices, f \in GateFractions, sigma \in Sigmas : Density2d(bins, f, sigma)

Spec == Init /\ [][Next]_vars

-----------------------------------------------------------------------------
(* The properties *)

Returned(g) == out.gate = g /\ out.status = "returned"

\* The call got as far as the histogram (it did not fail the assertions).
Binning == out.gate = "density2d" /\ out.status # "none" /\ "H" \in DOMAIN out

RowsOf(seq) == {seq[k] : k \in 1 .. Len(seq)}

FractionLess(f, g) == f[1] * g[2] < g[1] * f[2]

\* Two cells of one D (they share the denominator) hold the same number.
SameDensity(a, b) == a.kind = "fin" /\ b.kind = "fin" /\ a.den = b.den /\ a.num = b.num

\* A coordinate lies within the edges e, both ends included.
Within(v, e) == e[1] <= v /\ v <= e[Len(e)]

\* The coordinates of row r in the units of the edges of the call.
EdgeX(r) == data[r][1] * (IF call.bins.kind = "int" THEN 2 * call.bins.n ELSE 1)
EdgeY(r) == data[r][2] * (IF call.bins.kind = "int" THEN 2 * call.bins.n ELSE 1)

\* C1: every gate that returns gives a boolean mask of one entry per row of
\* data, and gated_data is the rows whose entry is true, in row order.
C1_MaskIsBooleanOverRows ==
    out.status = "returned" =>
        /\ out.maskKind = "bool"
        /\ Len(out.mask) = Len(data)
        /\ out.gated_data = BoolIndex(data, out.mask)

\* C2: start_end with num_start + num_end <= N, num_end = 0 included, keeps
\* exactly the rows i with num_start <= i < N - num_end.
C2_StartEndKeepsMiddle ==
    (Returned("start_end") /\ call.num_start + call.num_end <= Len(data)) =>
        \A i \in 1 .. Len(data) :
            out.mask[i] <=> (call.num_start <= i - 1 /\ i - 1 < Len(data) - call.num_end)

\* C3: density2d keeps the rows of the shortest prefix of the cells, by
\* descending density, whose cumulative raw count reaches
\* n = ceil(gate_fraction * N): at least n rows are kept, and without the
\* last cell of the prefix the count is below n.
C3_ShortestPrefixReachingTarget ==
    Returned("density2d") =>
        /\ out.n * out.gate_fraction[2] >= out.gate_fraction[1] * out.N
        /\ (out.n - 1) * out.gate_fraction[2] < out.gate_fraction[1] * out.N
        /\ RowsOf(out.mask) = UNION {RowsOf(out.Hi[out.sidx[i]]) : i \in 0 .. out.Nidx}
        /\ Len(out.mask) >= out.n
        /\ SumTo([i \in DOMAIN out.sidx |-> out.H[out.sidx[i]]], out.Nidx) >= out.n
        /\ SumTo([i \in DOMAIN out.sidx |-> out.H[out.sidx[i]]], out.Nidx - 1) < out.n

\* C4: on the same events, bins and sigma, the larger of two gate fractions
\* keeps every row the smaller one keeps, and so at least as many.
C4_LargerFractionKeepsMore ==
    (Returned("density2d") /\ prev.gate = "density2d" /\ prev.status = "returned") =>
        /\ FractionLess(prev.gate_fraction, out.gate_fraction) =>
              RowsOf(prev.mask) \subseteq RowsOf(out.mask) /\ Len(prev.mask) <= Len(out.mask)
        /\ FractionLess(out.gate_fraction, prev.gate_fraction) =>
              RowsOf(out.mask) \subseteq RowsOf(prev.mask) /\ Len(out.mask) <= Len(prev.mask)

\* The second call, with the larger fraction, keeps more rows than the first.
C4_Witness ==
    /\ Returned("density2d") /\ prev.gate = "density2d" /\ prev.status = "returned"
    /\ FractionLess(prev.gate_fraction, out.gate_fraction)
    /\ Len(prev.mask) >= 1
    /\ Len(prev.mask) < Len(out.mask)

\* C5: a row whose coordinate equals the last edge of an axis gets the last
\* bin of that axis (index len(edges) - 2) and, when it is within the edges
\* on the other axis too, is stored in that cell and not dropped; a row above
\* the last edge or below the first edge of an axis is in no cell and is not
\* kept.
C5_LastEdgeInLastBin ==
    Binning =>
        \A r \in 1 .. Len(data) :
            LET cells == {k \in DOMAIN out.Hi : r \in RowsOf(out.Hi[k])}
                inside == Within(EdgeX(r), out.xe) /\ Within(EdgeY(r), out.ye)
            IN /\ EdgeX(r) = out.xe[Len(out.xe)] => out.ix[r] = Len(out.xe) - 2
               /\ EdgeY(r) = out.ye[Len(out.ye)] => out.iy[r] = Len(out.ye) - 2
               /\ inside => cells = {out.ix[r] * (Len(out.ye) - 1) + out.iy[r]}
               /\ ~inside => cells = {} /\ (out.status = "returned" => r \notin RowsOf(out.mask))

\* A kept row lies on the last x edge while another row is outside the edges.
C5_Witness ==
    /\ Returned("density2d")
    /\ call.bins.kind = "edges"
    /\ \E r \in 1 .. Len(data) :
          /\ EdgeX(r) = out.xe[Len(out.xe)]
          /\ Within(EdgeY(r), out.ye)
          /\ r \in RowsOf(out.mask)
    /\ \E r \in 1 .. Len(data) :
          EdgeX(r) > out.xe[Len(out.xe)] \/ EdgeX(r) < out.xe[1]

\* C6: the raw histogram and the grid of row lists agree: the count of a cell
\* is the number of rows stored for it, a row within the edges is stored in
\* exactly one cell, and the counts add up to N, the population that n, the
\* number of rows to keep, is computed from.
C6_HistogramAgreesWithRowLists ==
    Binning =>
        /\ \A k \in DOMAIN out.H : out.H[k] = Len(out.Hi[k])
        /\ \A k \in DOMAIN out.Hi : Cardinality(RowsOf(out.Hi[k])) = Len(out.Hi[k])
        /\ \A r \in 1 .. Len(data) :
              (Within(EdgeX(r), out.xe) /\ Within(EdgeY(r), out.ye)) =>
                  Cardinality({k \in DOMAIN out.Hi : r \in RowsOf(out.Hi[k])}) = 1
        /\ SumTo(out.H, Cardinality(DOMAIN out.H) - 1) = out.N
        /\ out.n * out.gate_fraction[2] >= out.gate_fraction[1] * out.N
        /\ (out.n - 1) * out.gate_fraction[2] < out.gate_fraction[1] * out.N

\* Some rows are inside the edges, one of them on the last x edge, and some
\* are outside.
C6_Witness ==
    /\ Returned("density2d")
    /\ out.N >= 1
    /\ out.N < Len(data)
    /\ \E r \in 1 .. Len(data) : EdgeX(r) = out.xe[Len(out.xe)] /\ Within(EdgeY(r), out.ye)

\* C7: a call whose raw histogram has no mass raises before it normalises,
\* and returns nothing.
C7_ZeroMassRaises ==
    (Binning /\ SumTo(out.H, Cardinality(DOMAIN out.H) - 1) = 0) =>
        /\ out.status = "raised"
        /\ "D" \notin DOMAIN out

\* C8: the ellipse gate with a = 0 or b = 0, called on some events, raises
\* instead of returning a mask.
C8_ZeroSemiAxisRaises ==
    (out.gate = "ellipse" /\ Len(data) >= 1 /\ (call.a = 0 \/ call.b = 0)) =>
        out.status = "raised"

\* C9 as stated: the cells are ranked by descending density and cells of
\* equal density are ranked by ascending flat index.
C9_TiesInFlatteningOrder ==
    Returned("density2d") =>
        \A i, j \in DOMAIN out.sidx :
            i < j =>
                /\ ~DLess(out.D[out.sidx[i]], out.D[out.sidx[j]])
                /\ SameDensity(out.D[out.sidx[i]], out.D[out.sidx[j]]) =>
                      out.sidx[i] < out.sidx[j]

\* C9 as amended: the cells are ranked by descending density, in the reverse
\* of the order np.argsort returned, rank for rank, whatever order that gave
\* to cells of equal density; the rows kept are those of the cells up to the
\* cutoff rank.
C9_DescendingReverseOfArgsort ==
    Returned("density2d") =>
        /\ \A i, j \in DOMAIN out.sidx :
              i < j => out.sidx[i] # out.sidx[j] /\ ~DLess(out.D[out.sidx[i]], out.D[out.sidx[j]])
        /\ \A i \in DOMAIN out.sidx :
              out.sidx[i] = out.asc[Cardinality(DOMAIN out.asc) - 1 - i]
        /\ RowsOf(out.mask) = UNION {RowsOf(out.Hi[out.sidx[i]]) : i \in 0 .. out.Nidx}

\* The cutoff falls inside a run of cells of equal density, and the cell that
\* is kept has the higher flat index.
C9_Witness ==
    /\ Returned("density2d")
    /\ \E i, j \in DOMAIN out.sidx :
          /\ i <= out.Nidx /\ out.Nidx < j
          /\ SameDensity(out.D[out.sidx[i]], out.D[out.sidx[j]])
          /\ out.sidx[i] > out.sidx[j]
          /\ out.H[out.sidx[i]] >= 1 /\ out.H[out.sidx[j]] >= 1

\* C10: the contour is traced on the densities placed at the bin centres, at
\* the density of the cell at the cutoff rank.
C10_ContourAtBinCentres ==
    Returned("density2d") =>
        /\ \A i \in 1 .. Len(out.contour.x) : 2 * out.contour.x[i] = out.xe[i] + out.xe[i + 1]
        /\ \A j \in 1 .. Len(out.contour.y) : 2 * out.contour.y[j] = out.ye[j] + out.ye[j + 1]
        /\ out.contour.level = out.D[out.sidx[out.Nidx]]

====
